---- MODULE Spec2Model ----
(***************************************************************************)
(* Model of docs conf.py: the Sphinx configuration module of jax-dl.       *)
(*                                                                         *)
(* The documentation builder loads conf.py by executing its module-level   *)
(* statements, top to bottom, in a fresh namespace.  The file consists of  *)
(* ten assignments of literals.  A load is modelled as a process whose     *)
(* program counter pc is the index of the next statement and whose         *)
(* namespace ns maps each name assigned so far to its Python value.        *)
(* Several independent loads (builds), each started in an environment of   *)
(* its own, are modelled side by side so that their results can be         *)
(* compared.                                                               *)
(***************************************************************************)
EXTENDS Integers, Sequences, FiniteSets, TLC

(* ------------------------------ bounds --------------------------------- *)
\* number of independent loads (builds) of conf.py
NumLoads == 2
\* number of distinct environments a load may be started in; each stands
\* for one combination of working directory, os.environ contents and
\* builder state (installed packages, options, tags)
MaxEnv == 2

Loads == 1..NumLoads
Environments == 1..MaxEnv

(* --------------------------- Python values ----------------------------- *)
\* A Python value carries its runtime type.  Lists hold Python values.
PyStr(s) == [type |-> "str", str |-> s, items |-> <<>>]
PyBool(b) == [type |-> "bool", str |-> IF b THEN "True" ELSE "False", items |-> <<>>]
PyList(xs) == [type |-> "list", str |-> "", items |-> xs]

(* ----------------- the right-hand sides of conf.py --------------------- *)
project == PyStr("Deep Learning with JAX")

copyright == PyStr("2025, Victor An")

author == PyStr("Victor An")

extensions_Reordered == PyList(<<PyStr("nbsphinx"), PyStr("sphinx.ext.autodoc"), PyStr("sphinx.ext.viewcode")>>)
extensions_NoNbsphinx == PyList(<<PyStr("sphinx.ext.autodoc"), PyStr("sphinx.ext.viewcode")>>)
extensions == PyList(<<PyStr("sphinx.ext.autodoc"), PyStr("sphinx.ext.viewcode"), PyStr("nbsphinx")>>)

templates_path_Str == PyStr("_templates")
templates_path == PyList(<<PyStr("_templates")>>)

exclude_patterns == PyList(<<PyStr("_build"), PyStr("Thumbs.db"), PyStr(".DS_Store")>>)

language == PyStr("en")

html_theme == PyStr("sphinx_rtd_theme")

html_static_path == PyList(<<PyStr("_static")>>)

nbsphinx_execute_Bool == PyBool(TRUE)
nbsphinx_execute == PyStr("auto")

(* ------------------------------ state ---------------------------------- *)
VARIABLES
    env,    \* env[l]: the environment load l was started in (never read by conf.py)
    pc,     \* pc[l]: index of the next statement of conf.py load l executes
    ns,     \* ns[l]: module namespace of load l, name -> Python value
    exc     \* exc[l]: the exception that aborted load l, "None" if none

vars == <<env, pc, ns, exc>>

\* the empty namespace
EmptyNs == [k \in {} |-> PyStr("")]

\* conf.py has ten statements; a load is finished when pc is past the last
Statements == <<"project", "copyright", "author", "extensions", "templates_path", "exclude_patterns", "language", "html_theme", "html_static_path", "nbsphinx_execute">>
Done == Len(Statements) + 1

Init ==
    /\ env \in [Loads -> Environments]
    /\ pc = [l \in Loads |-> 1]
    /\ ns = [l \in Loads |-> EmptyNs]
    /\ exc = [l \in Loads |-> "None"]

\* Statement i of load l: NAME = <literal>.  Binds name k to v in the
\* module namespace (rebinding it if already bound) and falls through to
\* the next statement.  A literal cannot raise.
Assign(l, i, k, v) ==
    /\ pc[l] = i
    /\ exc[l] = "None"
    /\ ns' = [ns EXCEPT ![l] = (k :> v) @@ @]
    /\ pc' = [pc EXCEPT ![l] = i + 1]
    /\ UNCHANGED <<env, exc>>

AssignProject(l) == Assign(l, 1, "project", project)

AssignCopyright(l) == Assign(l, 2, "copyright", copyright)

AssignAuthor_Rebind(l) == Assign(l, 3, "copyright", author)
AssignAuthor(l) == Assign(l, 3, "author", author)

AssignExtensions(l) == Assign(l, 4, "extensions", extensions)

AssignTemplatesPath(l) == Assign(l, 5, "templates_path", templates_path)

AssignExcludePatterns(l) == Assign(l, 6, "exclude_patterns", exclude_patterns)

AssignLanguage_Env(l) == Assign(l, 7, "language", PyStr(IF env[l] = 1 THEN "en" ELSE "C"))
AssignLanguage(l) == Assign(l, 7, "language", language)

\* variant of line 31 that imports the theme package before naming it;
\* the import raises when the package is absent from the environment
AssignHtmlTheme_Import(l) ==
    /\ pc[l] = 8
    /\ exc[l] = "None"
    /\ IF env[l] = 1
         THEN /\ exc' = [exc EXCEPT ![l] = "ImportError"]
              /\ UNCHANGED <<env, pc, ns>>
         ELSE /\ ns' = [ns EXCEPT ![l] = ("html_theme" :> html_theme) @@ @]
              /\ pc' = [pc EXCEPT ![l] = 9]
              /\ UNCHANGED <<env, exc>>
AssignHtmlTheme(l) == Assign(l, 8, "html_theme", html_theme)

AssignHtmlStaticPath_Typo(l) == Assign(l, 9, "html_static_paths", html_static_path)
AssignHtmlStaticPath(l) == Assign(l, 9, "html_static_path", html_static_path)

AssignNbsphinxExecute(l) == Assign(l, 10, "nbsphinx_execute", nbsphinx_execute)

\* one step of load l: the statement at pc[l]
Load(l) ==
    \/ AssignProject(l)
    \/ AssignCopyright(l)
    \/ AssignAuthor(l)
    \/ AssignExtensions(l)
    \/ AssignTemplatesPath(l)
    \/ AssignExcludePatterns(l)
    \/ AssignLanguage(l)
    \/ AssignHtmlTheme(l)
    \/ AssignHtmlStaticPath(l)
    \/ AssignNbsphinxExecute(l)

Next ==
    \/ \E l \in Loads : AssignProject(l)
    \/ \E l \in Loads : AssignCopyright(l)
    \/ \E l \in Loads : AssignAuthor(l)
    \/ \E l \in Loads : AssignExtensions(l)
    \/ \E l \in Loads : AssignTemplatesPath(l)
    \/ \E l \in Loads : AssignExcludePatterns(l)
    \/ \E l \in Loads : AssignLanguage(l)
    \/ \E l \in Loads : AssignHtmlTheme(l)
    \/ \E l \in Loads : AssignHtmlStaticPath(l)
    \/ \E l \in Loads : AssignNbsphinxExecute(l)

Spec == Init /\ [][Next]_vars

\* The interpreter runs the module body to completion without blocking:
\* a load whose next statement is enabled eventually executes it.
FairSpec == Spec /\ \A l \in Loads : WF_vars(Load(l))

(* ---------------------------- predicates ------------------------------- *)
Defined(l) == DOMAIN ns[l]
Loaded(l) == pc[l] = Done
IsStr(v) == v.type = "str"
IsStrList(v) == v.type = "list" /\ \A i \in 1..Len(v.items) : IsStr(v.items[i])
ExecuteModes == {"auto", "always", "never"}
IsExecuteMode(v) == IsStr(v) /\ v.str \in ExecuteModes
StringKeys == {"project", "author", "copyright", "language", "html_theme"}
ListKeys == {"extensions", "templates_path", "exclude_patterns", "html_static_path"}
RecognizedKeys == {"project", "author", "copyright", "extensions", "templates_path", "exclude_patterns", "language", "html_theme", "html_static_path", "nbsphinx_execute"}

(* ------------------------------ claims --------------------------------- *)

\* C1: after conf.py is loaded, project, author, copyright, language and
\* html_theme are strings; extensions, templates_path, exclude_patterns and
\* html_static_path are lists of strings; nbsphinx_execute is an enum value.
KeysWellTyped ==
    \A l \in Loads : Loaded(l) =>
        /\ StringKeys \cup ListKeys \cup {"nbsphinx_execute"} \subseteq Defined(l)
        /\ \A k \in StringKeys : IsStr(ns[l][k])
        /\ \A k \in ListKeys : IsStrList(ns[l][k])
        /\ IsExecuteMode(ns[l]["nbsphinx_execute"])

KeysWellTypedWitness ==
    \E l \in Loads : Loaded(l) /\ ns[l]["templates_path"].type = "list" /\ Len(ns[l]["exclude_patterns"].items) = 3

\* C2: the value assigned to nbsphinx_execute is one of the strings "auto",
\* "always", "never", and is not a boolean.
ExecuteIsModeString ==
    \A l \in Loads : "nbsphinx_execute" \in Defined(l) =>
        /\ ns[l]["nbsphinx_execute"].type # "bool"
        /\ ns[l]["nbsphinx_execute"].type = "str"
        /\ ns[l]["nbsphinx_execute"].str \in {"auto", "always", "never"}

ExecuteIsModeStringWitness ==
    \E l \in Loads : "nbsphinx_execute" \in Defined(l) /\ ns[l]["nbsphinx_execute"].str = "auto"

\* C3: every name the file assigns is one of the ten keys of the
\* external-interface table, and after the load every key of the table is
\* defined.
KeysRecognized ==
    \A l \in Loads :
        /\ Defined(l) \subseteq RecognizedKeys
        /\ Loaded(l) => Defined(l) = RecognizedKeys

KeysRecognizedWitness ==
    \E l \in Loads : Loaded(l) /\ Cardinality(Defined(l)) = 10

\* C4: the load is a straight-line sequence of assignments: every step of a
\* load moves to the next statement, binds exactly one name that was not
\* bound before, and leaves the value of every name bound earlier unchanged.
StepOf(l) == pc'[l] # pc[l] \/ ns'[l] # ns[l] \/ exc'[l] # exc[l]
AssignedOnce ==
    [][\A l \in Loads : StepOf(l) =>
          /\ pc'[l] = pc[l] + 1
          /\ \E k \in Defined(l)' \ Defined(l) : Defined(l)' = Defined(l) \cup {k}
          /\ \A k \in Defined(l) : ns'[l][k] = ns[l][k]
          /\ Cardinality(Defined(l)') = pc'[l] - 1]_vars

AssignedOnceWitness ==
    \E l \in Loads : pc[l] = 4 /\ Defined(l) = {"project", "copyright", "author"}

\* C5: a load always finishes and never enters an error state: a state in
\* which all ten keys are defined is eventually reached, and no load is ever
\* aborted by an exception.
LoadFinishes ==
    /\ <>(\A l \in Loads : Loaded(l) /\ Cardinality(Defined(l)) = Len(Statements))
    /\ [](\A l \in Loads : exc[l] = "None")

LoadFinishesWitness ==
    \A l \in Loads : Loaded(l) /\ exc[l] = "None" /\ Cardinality(Defined(l)) = Len(Statements)

\* C6: extensions is an ordered, duplicate-free sequence of exactly three
\* identifiers: "sphinx.ext.autodoc", "sphinx.ext.viewcode", "nbsphinx".
ExtensionsOrdered ==
    \A l \in Loads : "extensions" \in Defined(l) =>
        LET xs == ns[l]["extensions"].items IN
        /\ ns[l]["extensions"].type = "list"
        /\ Len(xs) = 3
        /\ \A i, j \in 1..Len(xs) : xs[i] = xs[j] => i = j
        /\ xs[1] = PyStr("sphinx.ext.autodoc")
        /\ xs[2] = PyStr("sphinx.ext.viewcode")
        /\ xs[3] = PyStr("nbsphinx")

ExtensionsOrderedWitness ==
    \E l \in Loads : "extensions" \in Defined(l) /\ Len(ns[l]["extensions"].items) = 3

\* C7: nbsphinx_execute is defined only when extensions is defined and
\* "nbsphinx" is one of its elements.
ExecuteOnlyWithNbsphinx ==
    \A l \in Loads : "nbsphinx_execute" \in Defined(l) =>
        /\ "extensions" \in Defined(l)
        /\ \E i \in 1..Len(ns[l]["extensions"].items) : ns[l]["extensions"].items[i] = PyStr("nbsphinx")

ExecuteOnlyWithNbsphinxWitness ==
    \E l \in Loads : {"nbsphinx_execute", "extensions"} \subseteq Defined(l)

\* C8: two loads started in different environments end with identical
\* values for every key.
LoadDeterministic ==
    \A l1, l2 \in Loads : Loaded(l1) /\ Loaded(l2) =>
        /\ Defined(l1) = Defined(l2)
        /\ \A k \in Defined(l1) : ns[l1][k] = ns[l2][k]

LoadDeterministicWitness ==
    \E l1, l2 \in Loads :
        /\ env[l1] # env[l2]
        /\ Loaded(l1) /\ Loaded(l2)
====
